---- MODULE Spec2Model ----
(***************************************************************************)
(* Model of backend.py: the TTL cache, the player-stat extractor, the      *)
(* match extractor (participants, rounds estimate) and the props builder.  *)
(*                                                                         *)
(* Numbers are fixed point: times are whole seconds, kpr and raw page      *)
(* numbers are hundredths, rounds per map are tenths, headshot fractions   *)
(* are ten-thousandths, expected kills and lines are hundredths.           *)
(* An optional value (Python's None or a value) is a record [some, val].   *)
(***************************************************************************)
EXTENDS Integers, Sequences, FiniteSets, TLC

VARIABLES
    now,        \* time.time(), in seconds
    cache,      \* _cache: a function from the keys present to [ts, value]
    lastSet,    \* history: per key, the [ts, value] of the latest cache_set
    got,        \* history: the latest completed cache_get (key, time, result)
    tpc,        \* per thread: position inside cache_get
    tkey,       \* per thread: the key argument of the running cache_get
    tentry,     \* per thread: the local variable entry of cache_get
    tret,       \* per thread: the value the latest cache_get returned
    statsDoc,   \* a player profile document handed to the stat extractor
    statsOut,   \* what the stat extractor returned for it: [done, kpr, hs]
    roundsDoc,  \* a match document handed to the rounds estimate
    roundsOut,  \* what the rounds estimate returned for it: [done, rounds]
    linksDoc,   \* the <a> elements of a match document, in document order
    playersOut, \* what the participant extractor returned: [done, players]
    site,       \* the upstream site: its match page and its profile answers
    pc,         \* position of the build_props_for_match call in progress
    players,    \* build_props_for_match: the local list players
    idx,        \* build_props_for_match: 1-based position of the for loop
    rounds,     \* build_props_for_match: the local rounds_per_map
    out,        \* build_props_for_match: the local list out
    call,       \* history: what the current or latest call saw and did
    calls       \* number of build_props_for_match calls started

cacheVars == <<now, cache, lastSet, got>>
raceVars == <<tpc, tkey, tentry, tret>>
pureVars == <<statsDoc, statsOut, roundsDoc, roundsOut, linksDoc, playersOut>>
propsVars == <<site, pc, players, idx, rounds, out, call, calls>>
vars == <<now, cache, lastSet, got, tpc, tkey, tentry, tret,
          statsDoc, statsOut, roundsDoc, roundsOut, linksDoc, playersOut,
          site, pc, players, idx, rounds, out, call, calls>>

---------------------------------------------------------------------------
(* Bounds of the model *)

MaxTime == 2700
NumThreads == 2
MaxLabels == 2
MaxPercents == 2
MaxLinks == 3
MaxNames == 2
MaxSmall == 2
MaxExtra == 2
MaxCalls == 2

(* Program constants *)

\* CACHE_TTL = 30 * 60, in seconds
CACHE_TTL == 30 * 60

\* for p in players[:20]
MAX_PLAYERS == 20

---------------------------------------------------------------------------
(* Optional values *)

None == [some |-> FALSE, val |-> <<>>]
Some(v) == [some |-> TRUE, val |-> v]

(* Cache keys and payloads used to exercise the cache on its own *)
Keys == {"match_props_1", "match_props_2"}
Payloads == {<<>>, <<"a">>, <<"a", "b">>}
RacePayloads == {<<"a">>, <<"b">>}

Threads == 1..NumThreads

\* the clock is observed at multiples of half the TTL, so that an age of
\* exactly CACHE_TTL occurs
TickSteps == {CACHE_TTL \div 2}

---------------------------------------------------------------------------
(* Optional numbers, and safe_float *)

NoneN == [some |-> FALSE, val |-> 0]
SomeN(n) == [some |-> TRUE, val |-> n]

\* The text of an element next to a label, the percent sign removed: a
\* number float() accepts (kind "num", in hundredths), or text it rejects
\* (kind "junk"); kind "none" stands for a label with no next sibling.
NoSibling == [kind |-> "none", num |-> 0]
Junk == [kind |-> "junk", num |-> 0]
Num(h) == [kind |-> "num", num |-> h]

\* safe_float(x): float(x), or None when float raises
safe_float(tok) == IF tok.kind = "num" THEN SomeN(tok.num) ELSE NoneN

---------------------------------------------------------------------------
(* The stat extractor: parse_player_stats_from_player_page *)

\* A profile document is what the extractor reads of it:
\*   blank   the document text is the empty string
\*   labels  the span/div elements whose text is exactly "Kills / round" or
\*           "Headshots", in document order, each with its next sibling
\*   kprRe   the number the 'Kills / round' regex captures, if it matches
\*   hsRe    the number the 'Headshots' regex captures, if it matches
BlankDoc == [blank |-> TRUE, labels |-> <<>>, kprRe |-> NoneN, hsRe |-> NoneN]

\* hs > 1 divides by 100: raw hundredths to a fraction in ten-thousandths
PercentToFraction(h) == IF h > 100 THEN h ELSE h * 100

\* lines 63-73: the loop over the labels found; a later label overwrites
RECURSIVE ScanLabels(_, _, _, _)
ScanLabels(labels, i, kpr, hs) ==
    IF i > Len(labels) THEN [kpr |-> kpr, hs |-> hs]
    ELSE LET lab == labels[i]
             val == safe_float(lab.sib)
         IN IF lab.sib.kind = "none" THEN ScanLabels(labels, i + 1, kpr, hs)
            ELSE IF lab.text = "Kills / round"
                 THEN ScanLabels(labels, i + 1, val, hs)
                 ELSE ScanLabels(labels, i + 1, kpr,
                          IF val.some THEN SomeN(PercentToFraction(val.val)) ELSE NoneN)

\* lines 52-102: returns (kpr, hs); kpr in hundredths, hs in ten-thousandths
parse_player_stats_from_player_page(doc) ==
    LET s == ScanLabels(doc.labels, 1, NoneN, NoneN)
        kpr == IF ~s.kpr.some /\ doc.kprRe.some THEN doc.kprRe ELSE s.kpr
        hs == IF ~s.hs.some /\ doc.hsRe.some
              THEN SomeN(PercentToFraction(doc.hsRe.val))
              ELSE s.hs
    IN [kpr |-> kpr, hs |-> hs]

NoStats == [done |-> FALSE, kpr |-> NoneN, hs |-> NoneN]

ParseStats ==
    /\ ~statsOut.done
    /\ LET r == parse_player_stats_from_player_page(statsDoc)
       IN statsOut' = [done |-> TRUE, kpr |-> r.kpr, hs |-> r.hs]
    /\ UNCHANGED <<statsDoc, roundsDoc, roundsOut, linksDoc, playersOut>>

---------------------------------------------------------------------------
(* The rounds estimate: estimate_rounds_by_odds *)

Abs(x) == IF x < 0 THEN -x ELSE x
Min(a, b) == IF a < b THEN a ELSE b

\* A match document, as the estimate reads it:
\*   favorite, favored  the lowercase text contains the word
\*   percents           the numbers re.findall(r'([0-9]{1,3})\%') returns
\* the estimate with the keyword test made after the percent test
RoundsKeywordLast(doc) ==
    LET p == doc.percents
        r1 == IF Len(p) >= 2
              THEN IF Abs(p[1] - p[2]) >= 15 THEN 220
                   ELSE IF Abs(p[1] - p[2]) <= 8 THEN 260 ELSE 235
              ELSE 235
    IN IF doc.favorite \/ doc.favored THEN 220 ELSE r1

\* lines 158-183: rounds per map, in tenths
estimate_rounds_by_odds(doc) ==
    LET r0 == 235
        r1 == IF doc.favorite \/ doc.favored THEN 220 ELSE r0
        percents == doc.percents
    IN IF Len(percents) >= 2
       THEN LET pnums == SubSeq(percents, 1, Min(4, Len(percents)))
                diff == Abs(pnums[1] - pnums[2])
            IN IF diff >= 15 THEN 220
               ELSE IF diff <= 8 THEN 260
               ELSE r1
       ELSE r1

NoRounds == [done |-> FALSE, rounds |-> 0]

EstimateRounds ==
    /\ ~roundsOut.done
    /\ roundsOut' = [done |-> TRUE, rounds |-> estimate_rounds_by_odds(roundsDoc)]
    /\ UNCHANGED <<statsDoc, statsOut, roundsDoc, linksDoc, playersOut>>

---------------------------------------------------------------------------
(* The participant extractor: find_players_from_match_page *)

\* An <a> element is [href, text]: href is [prefix, id], the prefix being
\* "/player/" when the target starts with it; text is the visible text as a
\* player name number, 0 standing for the empty text.
PlayerHref(n) == [prefix |-> "/player/", id |-> n]
OtherHref(n) == [prefix |-> "/team/", id |-> n]

\* lines 123-127: the links kept, as {'name', 'href'}
RECURSIVE CollectPlayers(_, _)
CollectPlayers(links, i) ==
    IF i > Len(links) THEN <<>>
    ELSE IF links[i].href.prefix = "/player/" /\ links[i].text # 0
         THEN <<[name |-> links[i].text, href |-> links[i].href]>>
              \o CollectPlayers(links, i + 1)
         ELSE CollectPlayers(links, i + 1)

\* the dedup loop keyed on the href instead of the name
RECURSIVE DedupByHref(_, _, _)
DedupByHref(ps, i, seen) ==
    IF i > Len(ps) THEN <<>>
    ELSE IF ps[i].href \notin seen
         THEN <<ps[i]>> \o DedupByHref(ps, i + 1, seen \cup {ps[i].href})
         ELSE DedupByHref(ps, i + 1, seen)

\* lines 129-134: deduplicate by name, preserving order
RECURSIVE Dedup(_, _, _)
Dedup(ps, i, seen) ==
    IF i > Len(ps) THEN <<>>
    ELSE IF ps[i].name \notin seen
         THEN <<ps[i]>> \o Dedup(ps, i + 1, seen \cup {ps[i].name})
         ELSE Dedup(ps, i + 1, seen)

\* the extractor deduplicating by href instead of by name
FindPlayersByHref(links) == DedupByHref(CollectPlayers(links, 1), 1, {})

\* lines 118-135
find_players_from_match_page(links) == Dedup(CollectPlayers(links, 1), 1, {})

NoPlayers == [done |-> FALSE, players |-> <<>>]

FindPlayers ==
    /\ ~playersOut.done
    /\ playersOut' = [done |-> TRUE, players |-> find_players_from_match_page(linksDoc)]
    /\ UNCHANGED <<statsDoc, statsOut, roundsDoc, roundsOut, linksDoc>>

---------------------------------------------------------------------------
(* The cache: cache_get and cache_set *)

\* the staleness test of cache_get with >= in place of >
ExpiredAtTTL(ts, t) == t - ts >= CACHE_TTL

\* time.time() - entry["ts"] > CACHE_TTL
Expired(ts, t) == t - ts > CACHE_TTL

\* del _cache[key], a KeyError being swallowed
CacheDel(c, k) == [x \in (DOMAIN c) \ {k} |-> c[x]]

\* _cache[key] = {"ts": time.time(), "value": value}
CacheStore(c, k, v, t) ==
    [x \in (DOMAIN c) \cup {k} |-> IF x = k THEN [ts |-> t, value |-> v] ELSE c[x]]

\* what cache_get(key) returns at time t
CacheGetValue(c, k, t) ==
    IF k \notin DOMAIN c THEN None
    ELSE IF Expired(c[k].ts, t) THEN None
    ELSE Some(c[k].value)

\* _cache after cache_get(key) at time t
CacheAfterGet(c, k, t) ==
    IF k \in DOMAIN c /\ Expired(c[k].ts, t) THEN CacheDel(c, k) ELSE c

\* no cache_get has completed since the latest cache_set
NoGet == [key |-> "", at |-> 0, ret |-> None, had |-> FALSE]

\* cache_get as one sequential call
cache_get(k) ==
    /\ got' = [key |-> k, at |-> now, ret |-> CacheGetValue(cache, k, now),
               had |-> k \in DOMAIN cache]
    /\ cache' = CacheAfterGet(cache, k, now)
    /\ UNCHANGED <<now, lastSet>>

\* cache_set as one sequential call
cache_set(k, v) ==
    /\ cache' = CacheStore(cache, k, v, now)
    /\ lastSet' = CacheStore(lastSet, k, v, now)
    /\ got' = NoGet
    /\ UNCHANGED now

\* the clock advances
Tick ==
    /\ \E d \in TickSteps :
        /\ now + d <= MaxTime
        /\ now' = now + d
    /\ UNCHANGED <<cache, lastSet, got>>

---------------------------------------------------------------------------
(* The cache under concurrent callers: cache_get runs line by line *)

\* line 32: entry = _cache.get(key)
GetRead(t, k) ==
    /\ tpc[t] = "idle"
    /\ tkey' = [tkey EXCEPT ![t] = k]
    /\ tentry' = [tentry EXCEPT ![t] = IF k \in DOMAIN cache THEN Some(cache[k]) ELSE None]
    /\ tpc' = [tpc EXCEPT ![t] = "check"]
    /\ UNCHANGED <<now, cache, lastSet, got, tret>>

\* lines 33-35 and 41: the tests on the local entry, and the two plain returns
GetCheck(t) ==
    /\ tpc[t] = "check"
    /\ IF ~tentry[t].some
       THEN /\ tret' = [tret EXCEPT ![t] = None]
            /\ tpc' = [tpc EXCEPT ![t] = "idle"]
       ELSE IF Expired(tentry[t].val.ts, now)
       THEN /\ tpc' = [tpc EXCEPT ![t] = "del"]
            /\ UNCHANGED tret
       ELSE /\ tret' = [tret EXCEPT ![t] = Some(tentry[t].val.value)]
            /\ tpc' = [tpc EXCEPT ![t] = "idle"]
    /\ UNCHANGED <<now, cache, lastSet, got, tkey, tentry>>

\* lines 36-40: del _cache[key] in a try, then return None
GetDel(t) ==
    /\ tpc[t] = "del"
    /\ cache' = CacheDel(cache, tkey[t])
    /\ tret' = [tret EXCEPT ![t] = None]
    /\ tpc' = [tpc EXCEPT ![t] = "idle"]
    /\ UNCHANGED <<now, lastSet, got, tkey, tentry>>

\* line 44: cache_set, a single store
SetStore(t, k, v) ==
    /\ tpc[t] = "idle"
    /\ cache' = CacheStore(cache, k, v, now)
    /\ UNCHANGED <<now, lastSet, got, tpc, tkey, tentry, tret>>

---------------------------------------------------------------------------
(* The fetchers: fetch_match_page and fetch_hltv_player_page *)

\* How requests.get ends: it raises (timeout, network error), or it returns
\* a response whose status is not 200, or one whose status is 200.
FetchStatuses == {"raise", "non200", "ok"}

\* lines 111-116: the answer of the site for a profile href; with status
\* "raise" the call raises, with "non200" it returns None, with "ok" r.text
fetch_hltv_player_page(st, href) == st.profile[href.id]

\* lines 137-142: with status "ok" the call returns the site's match page
fetch_match_page(st, status) == [status |-> status, doc |-> st.match]

---------------------------------------------------------------------------
(* The props builder: build_props_for_match *)

MatchKey(m) == IF m = 1 THEN "match_props_1" ELSE "match_props_2"

\* Python truth of what cache_get returned: None and [] are both false
Truthy(opt) == opt.some /\ Len(opt.val) > 0

\* round(x, 2) of the quotient n / d scaled to hundredths: to nearest, ties
\* to even (on the documents used here the float results agree)
RoundHalfEven(n, d) ==
    LET q == n \div d
        r == n % d
    IN IF 2 * r > d \/ (2 * r = d /\ q % 2 = 1) THEN q + 1 ELSE q

\* players with no cap on their number
Uncapped(ps) == ps

\* players[:20]
Capped(ps) == SubSeq(ps, 1, Min(MAX_PLAYERS, Len(ps)))

\* lines 205-219: the entry of one participant
PlayerEntry(p, stats, r) ==
    LET kpr == stats.kpr
        hs == stats.hs
        expected == IF kpr.some THEN SomeN(RoundHalfEven(kpr.val * r, 10)) ELSE NoneN
    IN [player |-> p.name,
        player_href |-> p.href,
        kpr |-> IF kpr.some THEN kpr.val ELSE 0,
        hs_percent |-> IF hs.some THEN hs.val ELSE 0,
        expected_kills_per_map |-> IF expected.some THEN expected.val ELSE 0,
        kill_line |-> IF expected.some THEN expected.val ELSE 0,
        hs_line |-> IF hs.some /\ expected.some /\ expected.val # 0
                    THEN RoundHalfEven(hs.val * expected.val, 10000)
                    ELSE 0]

\* the zero-valued entry of a participant
ZeroEntry(p) == PlayerEntry(p, [kpr |-> NoneN, hs |-> NoneN], 0)

\* the loop body emitting a zero-valued entry when the fetch fails
LoopBodyZeroOnFailure(o, p, ans, r) ==
    IF ans.status # "ok" \/ ans.doc.blank THEN Append(o, ZeroEntry(p))
    ELSE Append(o, PlayerEntry(p, parse_player_stats_from_player_page(ans.doc), r))

\* the loop body skipping a participant with no recoverable stat
LoopBodySkipNoStats(o, p, ans, r) ==
    IF ans.status # "ok" \/ ans.doc.blank THEN o
    ELSE LET stats == parse_player_stats_from_player_page(ans.doc)
         IN IF ~stats.kpr.some /\ ~stats.hs.some THEN o
            ELSE Append(o, PlayerEntry(p, stats, r))

\* lines 201-222: one pass of the for loop; a raise is caught (continue),
\* None and the empty text are skipped (continue)
LoopBody(o, p, ans, r) ==
    IF ans.status = "raise" THEN o
    ELSE IF ans.status # "ok" \/ ans.doc.blank THEN o
    ELSE Append(o, PlayerEntry(p, parse_player_stats_from_player_page(ans.doc), r))

NoCall ==
    [match |-> 0, live |-> FALSE, stored |-> <<>>, hit |-> FALSE,
     matchFetch |-> "none", fetched |-> <<>>, raised |-> FALSE,
     done |-> FALSE, saved |-> FALSE, result |-> <<>>]

\* lines 187-190: the cache lookup and the return on a hit
BuildStart(m) ==
    /\ pc = "idle"
    /\ calls < MaxCalls
    /\ calls' = calls + 1
    /\ LET key == MatchKey(m)
           cached == CacheGetValue(cache, key, now)
           live == key \in DOMAIN cache /\ now - cache[key].ts < CACHE_TTL
           seen == [NoCall EXCEPT !.match = m, !.live = live,
                       !.stored = IF key \in DOMAIN cache THEN cache[key].value ELSE <<>>]
       IN /\ cache' = CacheAfterGet(cache, key, now)
          /\ IF Truthy(cached)
             THEN /\ call' = [seen EXCEPT !.hit = TRUE, !.done = TRUE, !.result = cached.val]
                  /\ pc' = "idle"
             ELSE /\ call' = seen
                  /\ pc' = "fetch_match"
    /\ players' = <<>>
    /\ idx' = 0
    /\ rounds' = 0
    /\ out' = <<>>
    /\ UNCHANGED <<now, lastSet, got, site>>

\* lines 192-198: the match page fetch, the rounds estimate, the participants
FetchMatch(status) ==
    /\ pc = "fetch_match"
    /\ LET ans == fetch_match_page(site, status)
       IN IF ans.status = "raise"
          THEN /\ call' = [call EXCEPT !.matchFetch = status, !.raised = TRUE, !.done = TRUE]
               /\ pc' = "idle"
               /\ UNCHANGED <<players, idx, rounds, out>>
          ELSE IF ans.status # "ok" \/ ans.doc.blank
          THEN /\ call' = [call EXCEPT !.matchFetch = status, !.done = TRUE, !.result = <<>>]
               /\ pc' = "idle"
               /\ UNCHANGED <<players, idx, rounds, out>>
          ELSE /\ call' = [call EXCEPT !.matchFetch = status]
               /\ rounds' = estimate_rounds_by_odds(ans.doc)
               /\ players' = find_players_from_match_page(ans.doc.links)
               /\ idx' = 1
               /\ out' = <<>>
               /\ pc' = "loop"
    /\ UNCHANGED <<now, cache, lastSet, got, site, calls>>

\* lines 200-222: one participant of players[:20]
PlayerStep ==
    /\ pc = "loop"
    /\ idx <= Len(Capped(players))
    /\ LET p == Capped(players)[idx]
           ans == fetch_hltv_player_page(site, p.href)
       IN /\ out' = LoopBody(out, p, ans, rounds)
          /\ call' = [call EXCEPT !.fetched = Append(@, p)]
    /\ idx' = idx + 1
    /\ UNCHANGED <<now, cache, lastSet, got, site, pc, players, rounds, calls>>

\* lines 224-225: the loop is over; store and return
BuildFinish ==
    /\ pc = "loop"
    /\ idx > Len(Capped(players))
    /\ cache' = CacheStore(cache, MatchKey(call.match), out, now)
    /\ lastSet' = CacheStore(lastSet, MatchKey(call.match), out, now)
    /\ call' = [call EXCEPT !.done = TRUE, !.saved = TRUE, !.result = out]
    /\ pc' = "idle"
    /\ UNCHANGED <<now, got, site, players, idx, rounds, out, calls>>

---------------------------------------------------------------------------
(* The documents and sites the model is run on *)

LabelTexts == {"Kills / round", "Headshots"}
SiblingTexts == {NoSibling, Junk, Num(-500), Num(42), Num(75), Num(4200), Num(15000)}
LabelElems == [text : LabelTexts, sib : SiblingTexts]
KprCaptures == {NoneN, SomeN(72)}
HsCaptures == {NoneN, SomeN(42), SomeN(4200), SomeN(15000)}

RECURSIVE SeqsUpTo(_, _)
SeqsUpTo(S, n) ==
    IF n = 0 THEN {<<>>}
    ELSE LET shorter == SeqsUpTo(S, n - 1)
         IN shorter \cup {Append(q, x) : q \in {r \in shorter : Len(r) = n - 1}, x \in S}

StatsDocs ==
    {BlankDoc} \cup
    [blank : {FALSE}, labels : SeqsUpTo(LabelElems, MaxLabels),
     kprRe : KprCaptures, hsRe : HsCaptures]

PercentValues == {0, 8, 9, 14, 15}
RoundsDocs ==
    [favorite : BOOLEAN, favored : BOOLEAN,
     percents : SeqsUpTo(PercentValues, MaxPercents)]

LinkElems ==
    [href : {PlayerHref(1), PlayerHref(2), OtherHref(3)}, text : 0..MaxNames]
LinkDocs == SeqsUpTo(LinkElems, MaxLinks)

\* profile pages: one with no stat, one with both stats
NoStatsDoc == [blank |-> FALSE, labels |-> <<>>, kprRe |-> NoneN, hsRe |-> NoneN]
FullDoc ==
    [blank |-> FALSE,
     labels |-> <<[text |-> "Kills / round", sib |-> Num(75)],
                  [text |-> "Headshots", sib |-> Num(4200)]>>,
     kprRe |-> SomeN(75), hsRe |-> SomeN(4200)]

ProfileAnswers ==
    {[status |-> "raise", doc |-> BlankDoc], [status |-> "non200", doc |-> BlankDoc],
     [status |-> "ok", doc |-> BlankDoc], [status |-> "ok", doc |-> NoStatsDoc],
     [status |-> "ok", doc |-> FullDoc]}
ProfileIds == {1, 2, 3}

\* a match page with n participants: a team link, one profile link per
\* participant, and a second link to participant 1 under another href
MatchLinks(n) ==
    <<[href |-> OtherHref(9), text |-> 1]>>
    \o [i \in 1..n |-> [href |-> PlayerHref(1 + (i % 3)), text |-> i]]
    \o (IF n >= 1 THEN <<[href |-> PlayerHref(1), text |-> 1]>> ELSE <<>>)

ParticipantCounts == (0..MaxSmall) \cup (MAX_PLAYERS..(MAX_PLAYERS + MaxExtra))
BlankMatch ==
    [blank |-> TRUE, favorite |-> FALSE, favored |-> FALSE, percents |-> <<>>,
     links |-> <<>>]
MatchDocs ==
    {BlankMatch} \cup
    [blank : {FALSE}, favorite : {FALSE}, favored : {FALSE},
     percents : {<<>>, <<52, 48>>},
     links : {MatchLinks(n) : n \in ParticipantCounts}]
\* the answers of the site for its three profile hrefs; the third profile
\* always answers with the page holding both stats
ProfileMaps ==
    {f \in [ProfileIds -> ProfileAnswers] : f[3] = [status |-> "ok", doc |-> FullDoc]}
Sites == [match : MatchDocs, profile : ProfileMaps]
PropsMatches == {1}

---------------------------------------------------------------------------
(* Initial states and specifications *)

IdleCache ==
    /\ now = 0
    /\ cache = <<>>
    /\ lastSet = <<>>
    /\ got = NoGet

IdleRace ==
    /\ tpc = [t \in Threads |-> "idle"]
    /\ tkey = [t \in Threads |-> ""]
    /\ tentry = [t \in Threads |-> None]
    /\ tret = [t \in Threads |-> None]

IdleStats == statsDoc = BlankDoc /\ statsOut = NoStats
IdleRounds ==
    /\ roundsDoc = [favorite |-> FALSE, favored |-> FALSE, percents |-> <<>>]
    /\ roundsOut = NoRounds
IdlePlayers == linksDoc = <<>> /\ playersOut = NoPlayers
IdlePure == IdleStats /\ IdleRounds /\ IdlePlayers

IdleBuild ==
    /\ pc = "idle"
    /\ players = <<>>
    /\ idx = 0
    /\ rounds = 0
    /\ out = <<>>
    /\ call = NoCall
    /\ calls = 0
IdleProps == site = [match |-> BlankMatch, profile |-> [i \in ProfileIds |-> [status |-> "non200", doc |-> BlankDoc]]] /\ IdleBuild

InitCache == IdleCache /\ IdleRace /\ IdlePure /\ IdleProps
InitStats ==
    /\ IdleCache /\ IdleRace /\ IdleRounds /\ IdlePlayers /\ IdleProps
    /\ statsDoc \in StatsDocs
    /\ statsOut = NoStats
InitRounds ==
    /\ IdleCache /\ IdleRace /\ IdleStats /\ IdlePlayers /\ IdleProps
    /\ roundsDoc \in RoundsDocs
    /\ roundsOut = NoRounds
InitPlayers ==
    /\ IdleCache /\ IdleRace /\ IdleStats /\ IdleRounds /\ IdleProps
    /\ linksDoc \in LinkDocs
    /\ playersOut = NoPlayers
InitProps ==
    /\ IdleCache /\ IdleRace /\ IdlePure /\ IdleBuild
    /\ site \in Sites

NextCache ==
    \/ \E k \in Keys : cache_get(k) /\ UNCHANGED <<raceVars, pureVars, propsVars>>
    \/ \E k \in Keys, v \in Payloads : cache_set(k, v) /\ UNCHANGED <<raceVars, pureVars, propsVars>>
    \/ Tick /\ UNCHANGED <<raceVars, pureVars, propsVars>>

NextRace ==
    \/ \E t \in Threads, k \in Keys : GetRead(t, k) /\ UNCHANGED <<pureVars, propsVars>>
    \/ \E t \in Threads : GetCheck(t) /\ UNCHANGED <<pureVars, propsVars>>
    \/ \E t \in Threads : GetDel(t) /\ UNCHANGED <<pureVars, propsVars>>
    \/ \E t \in Threads, k \in Keys, v \in RacePayloads : SetStore(t, k, v) /\ UNCHANGED <<pureVars, propsVars>>
    \/ Tick /\ UNCHANGED <<raceVars, pureVars, propsVars>>

NextStats == ParseStats /\ UNCHANGED <<cacheVars, raceVars, propsVars>>
NextRounds == EstimateRounds /\ UNCHANGED <<cacheVars, raceVars, propsVars>>
NextPlayers == FindPlayers /\ UNCHANGED <<cacheVars, raceVars, propsVars>>

NextProps ==
    \/ \E m \in PropsMatches : BuildStart(m) /\ UNCHANGED <<raceVars, pureVars>>
    \/ \E status \in FetchStatuses : FetchMatch(status) /\ UNCHANGED <<raceVars, pureVars>>
    \/ PlayerStep /\ UNCHANGED <<raceVars, pureVars>>
    \/ BuildFinish /\ UNCHANGED <<raceVars, pureVars>>
    \/ Tick /\ UNCHANGED <<raceVars, pureVars, propsVars>>

SpecCache == InitCache /\ [][NextCache]_vars
SpecRace == InitCache /\ [][NextRace]_vars
SpecStats == InitStats /\ [][NextStats]_vars
SpecRounds == InitRounds /\ [][NextRounds]_vars
SpecPlayers == InitPlayers /\ [][NextPlayers]_vars
SpecProps == InitProps /\ [][NextProps]_vars

---------------------------------------------------------------------------
(* Claims about the cache *)

\* the age, at the latest cache_get, of the record the latest cache_set wrote
GotAge == got.at - lastSet[got.key].ts

\* C1 as stated: a value set at t0 is returned unchanged by a cache_get at
\* any t with t0 <= t < t0 + TTL and is absent for any t >= t0 + TTL,
\* t = t0 + TTL included.
C1_AsStated ==
    got.key \in DOMAIN lastSet =>
        /\ GotAge < CACHE_TTL => got.ret = Some(lastSet[got.key].value)
        /\ GotAge >= CACHE_TTL => got.ret = None

\* C1 amended: a value set at t0 is returned unchanged by a cache_get at any
\* t with t0 <= t <= t0 + TTL (the bound included), and for any t > t0 + TTL
\* cache_get returns none and the record is gone from the cache.
C1_TtlWindow ==
    got.key \in DOMAIN lastSet =>
        /\ GotAge <= CACHE_TTL => got.ret = Some(lastSet[got.key].value)
        /\ GotAge > CACHE_TTL => got.ret = None /\ got.key \notin DOMAIN cache

\* a cache_get exactly TTL after the cache_set has returned the value
C1_Witness ==
    /\ got.key \in DOMAIN lastSet
    /\ GotAge = CACHE_TTL
    /\ got.ret = Some(lastSet[got.key].value)

\* C10: under every interleaving, a cache_get removes a record only when
\* that record's own age exceeds the TTL, so a fresh record is never lost.
C10_OnlyStaleDeleted ==
    [][\A k \in Keys :
        (k \in DOMAIN cache /\ k \notin DOMAIN cache') => Expired(cache[k].ts, now)]_vars

---------------------------------------------------------------------------
(* Claims about the props builder *)

\* the participants the loop runs over, and the site's answer for each
Run == Capped(players)
Answer(i) == fetch_hltv_player_page(site, Run[i].href)
FetchFailed(i) == Answer(i).status \in {"raise", "non200"}
HasEntry(i) == \E k \in 1..Len(out) : out[k].player = Run[i].name
NoStat(i) ==
    LET stats == parse_player_stats_from_player_page(Answer(i).doc)
    IN ~stats.kpr.some /\ ~stats.hs.some
\* the entries of out follow the order of the participants: each entry
\* belongs to a later participant than the entry before it (the names of
\* the participants are distinct, so this orders every pair)
InRunOrder ==
    \A a \in 1..(Len(out) - 1) :
        \E i, j \in 1..Len(Run) :
            /\ i < j
            /\ out[a].player = Run[i].name
            /\ out[a + 1].player = Run[j].name

\* C2 as stated: once a result is stored under the match key, every later
\* call made before the record's TTL expires is a cache hit that returns the
\* stored sequence and issues no fetch, an empty stored sequence included.
C2_AsStated ==
    call.live =>
        /\ call.hit /\ call.done
        /\ call.result = call.stored
        /\ call.matchFetch = "none"
        /\ call.fetched = <<>>

\* C3 as stated: when the match page fetch fails (non-200, timeout or
\* network error) the call returns an empty sequence and never raises.
C3_AsStated ==
    (call.done /\ call.matchFetch \in {"non200", "raise"}) =>
        ~call.raised /\ call.result = <<>>

\* C4 as stated: after a run, no participant of the first 20 whose profile
\* fetch failed has an entry, and every one whose profile fetch succeeded
\* has its entry, in document order.
C4_AsStated ==
    call.saved =>
        /\ \A i \in 1..Len(Run) : FetchFailed(i) => ~HasEntry(i)
        /\ \A i \in 1..Len(Run) : Answer(i).status = "ok" => HasEntry(i)
        /\ InRunOrder

\* C4 amended: after a run, no participant of the first 20 whose profile
\* fetch failed (non-200, or a raised error) has an entry, and every one
\* whose profile fetch returned a non-empty document has its entry, in
\* document order.
C4_FailedFetchSkipped ==
    call.saved =>
        /\ \A i \in 1..Len(Run) : FetchFailed(i) => ~HasEntry(i)
        /\ \A i \in 1..Len(Run) :
              (Answer(i).status = "ok" /\ ~Answer(i).doc.blank) => HasEntry(i)
        /\ InRunOrder

\* a run in which a raise and a non-200 each precede a participant whose
\* entry is in the output
C4_Witness ==
    /\ call.saved
    /\ \E i, j \in 1..Len(Run) :
          /\ i < j
          /\ Answer(i).status = "raise"
          /\ Answer(j).status = "ok" /\ HasEntry(j)
    /\ \E i, j \in 1..Len(Run) :
          /\ i < j
          /\ Answer(i).status = "non200"
          /\ Answer(j).status = "ok" /\ HasEntry(j)

\* C5 as stated: a participant whose profile is fetched but from which
\* neither kpr nor the headshot fraction is recoverable has no entry.
C5_AsStated ==
    call.saved =>
        \A i \in 1..Len(Run) : (Answer(i).status = "ok" /\ NoStat(i)) => ~HasEntry(i)

\* C5 amended: a participant whose profile is fetched as a non-empty
\* document from which neither kpr nor the headshot fraction is recoverable
\* is not skipped: the output holds its entry with every numeric field 0,
\* and the run goes on to fetch every later participant of the first 20.
C5_ZeroEntryEmitted ==
    call.saved =>
        /\ \A i \in 1..Len(Run) :
              (Answer(i).status = "ok" /\ ~Answer(i).doc.blank /\ NoStat(i)) =>
                  \E k \in 1..Len(out) : out[k] = ZeroEntry(Run[i])
        /\ call.fetched = Run

\* a run with a stat-less profile followed by a participant with stats
C5_Witness ==
    /\ call.saved
    /\ \E i, j \in 1..Len(Run) :
          /\ i < j
          /\ Answer(i).status = "ok" /\ ~Answer(i).doc.blank /\ NoStat(i)
          /\ \E k \in 1..Len(out) : out[k].player = Run[j].name /\ out[k].kpr > 0

\* C6: a run fetches profiles only for the first min(N, 20) of the N
\* participants, in document order, so at most 20 fetches; its output has at
\* most 20 entries, each of one of those participants, in the same order.
C6_Capped ==
    /\ Len(call.fetched) <= MAX_PLAYERS
    /\ Len(call.fetched) <= Len(players)
    /\ call.fetched = SubSeq(players, 1, Len(call.fetched))
    /\ Len(out) <= MAX_PLAYERS
    /\ \A k \in 1..Len(out) :
          \E i \in 1..Min(Len(players), MAX_PLAYERS) :
              out[k].player = players[i].name /\ out[k].player_href = players[i].href
    /\ InRunOrder
    /\ call.saved =>
          /\ Len(call.fetched) = Min(Len(players), MAX_PLAYERS)
          /\ call.result = out

\* a finished run over more than 20 participants with 20 fetches, 20 entries
C6_Witness ==
    /\ call.saved
    /\ Len(players) > MAX_PLAYERS
    /\ Len(call.fetched) = MAX_PLAYERS
    /\ Len(out) = MAX_PLAYERS

---------------------------------------------------------------------------
(* Claims about the extractors *)

\* C7: the estimate is one of 22.0, 23.5, 26.0 and equals the reference:
\* with d the difference of the first two percents (when there are two),
\* d >= 15 gives 22.0, d <= 8 gives 26.0 even with 'favorite' or 'favored'
\* in the text, otherwise 22.0 with such a word and 23.5 without.
C7_RoundsReference ==
    roundsOut.done =>
        LET p == roundsDoc.percents
            two == Len(p) >= 2
            word == roundsDoc.favorite \/ roundsDoc.favored
        IN /\ roundsOut.rounds \in {220, 235, 260}
           /\ (two /\ Abs(p[1] - p[2]) >= 15) => roundsOut.rounds = 220
           /\ (two /\ Abs(p[1] - p[2]) <= 8) => roundsOut.rounds = 260
           /\ (~two \/ (Abs(p[1] - p[2]) > 8 /\ Abs(p[1] - p[2]) < 15)) =>
                  roundsOut.rounds = IF word THEN 220 ELSE 235

\* a close match on a page that says 'favorite' was estimated at 26.0
C7_Witness ==
    /\ roundsOut.done
    /\ roundsDoc.favorite
    /\ Len(roundsDoc.percents) >= 2
    /\ Abs(roundsDoc.percents[1] - roundsDoc.percents[2]) <= 8
    /\ roundsOut.rounds = 260

\* link i is a profile link with visible text, the first one of its name
Eligible(i) == linksDoc[i].href.prefix = "/player/" /\ linksDoc[i].text # 0
FirstOfName(i) ==
    /\ Eligible(i)
    /\ \A j \in 1..(i - 1) : Eligible(j) => linksDoc[j].text # linksDoc[i].text

\* C8: the participants are exactly one entry per distinct player name, with
\* the href of that name's first link, in the order of those first links.
C8_DedupFirstWins ==
    playersOut.done =>
        LET ps == playersOut.players
            firsts == {i \in 1..Len(linksDoc) : FirstOfName(i)}
        IN /\ Len(ps) = Cardinality(firsts)
           /\ \A k \in 1..Len(ps) :
                 \E i \in firsts :
                    /\ Cardinality({j \in firsts : j < i}) = k - 1
                    /\ ps[k] = [name |-> linksDoc[i].text, href |-> linksDoc[i].href]

\* two links to one name under different hrefs gave one entry, the first href
C8_Witness ==
    /\ playersOut.done
    /\ Len(playersOut.players) = 1
    /\ \E i, j \in 1..Len(linksDoc) :
          /\ i < j /\ Eligible(i) /\ Eligible(j)
          /\ linksDoc[i].text = linksDoc[j].text
          /\ linksDoc[i].href # linksDoc[j].href
          /\ playersOut.players[1].href = linksDoc[i].href

\* every raw number of the document is non-negative
RawsNonNegative == \A k \in 1..Len(statsDoc.labels) : statsDoc.labels[k].sib.num >= 0

\* C9 as stated: for non-negative raw headshot numbers the fraction returned
\* is none or within [0, 1]; a raw 42 becomes 0.42 and a raw 0.42 stays 0.42.
C9_AsStated ==
    (statsOut.done /\ RawsNonNegative) =>
        /\ statsOut.hs.some => (statsOut.hs.val >= 0 /\ statsOut.hs.val <= 10000)
        /\ \A h \in {42, 4200} :
              statsDoc.labels = <<[text |-> "Headshots", sib |-> Num(h)]>> =>
                  statsOut.hs = SomeN(4200)

====
